---- MODULE Spec2Model ----
(***************************************************************************)
(* useInputValidation (src/src/index.ts): a React hook holding three       *)
(* useState cells (value, error, savePoint) and four callbacks (setValue,  *)
(* validate, reset, commit).  The host applies queued state updates at the *)
(* next render; the callbacks of a render read the state of that render.   *)
(*                                                                         *)
(* JavaScript values are modelled as strings: "'a'" and "''" are the JS    *)
(* strings 'a' and '', "null", "undefined", "true" and "false" are the JS  *)
(* values of those names.  V and E are not function types.                 *)
(***************************************************************************)
EXTENDS Naturals, Sequences, FiniteSets

VARIABLES value, error, savePoint, staticHint, validator, cb,
          qValue, qError, qSavePoint,
          initialValue, phase, calls, pre, validatorLog, lastCommit,
          recreated

vars == <<value, error, savePoint, staticHint, validator, cb,
          qValue, qError, qSavePoint,
          initialValue, phase, calls, pre, validatorLog, lastCommit,
          recreated>>

\* Largest number of callback invocations in one pass (between two renders).
MaxPending == 2

----------------------------------------------------------------------------
\* JavaScript values

NULL == "null"
UNDEFINED == "undefined"
JSTrue == "true"
JSFalse == "false"
StrA == "'a'"
StrEmpty == "''"
StrHint == "'Hint'"
StrDyn == "'Dyn'"
\* marks "the call threw" (not a JS value)
THROW == "throw!"
\* marks "not applicable" in a log entry
NA == "-"

\* the inhabitants of the value type V used by the model
Values == {StrA, StrEmpty, NULL}
\* the inhabitants of the error type E used as static hints
Hints == {StrHint, NULL}
\* updater functions (prevValue: V) => V passed to setValue
Updaters == {"fn:next"}
\* validators (value: V) => E | boolean
Validators == {"isA", "dynamic"}

\* typeof x
TypeOf(x) ==
  IF x \in {JSTrue, JSFalse} THEN "boolean"
  ELSE IF x = UNDEFINED THEN "undefined"
  ELSE IF x = NULL THEN "object"
  ELSE IF x \in Updaters THEN "function"
  ELSE "string"

\* a ?? b
NullishCoalesce(a, b) == IF a = NULL \/ a = UNDEFINED THEN b ELSE a

\* the updater function the callers pass: 'a' -> '' -> null -> 'a'
ApplyUpdater(f, prev) ==
  IF prev = StrA THEN StrEmpty ELSE IF prev = StrEmpty THEN NULL ELSE StrA

\* the validators the callers pass: the result of validator(v), or THROW
\*   isA:     'a' -> true, '' -> false,                 null -> throws
\*   dynamic: 'a' -> true, '' -> 'Dyn' (a dynamic hint), null -> null
CallValidator(f, v) ==
  IF f = "isA"
  THEN (IF v = StrA THEN JSTrue ELSE IF v = StrEmpty THEN JSFalse ELSE THROW)
  ELSE (IF v = StrA THEN JSTrue ELSE IF v = StrEmpty THEN StrDyn ELSE NULL)

----------------------------------------------------------------------------
\* The host: useState and useCallback

\* a cell declared without its initial state
UseStateMountUndefined(initial) == UNDEFINED

\* useState(initial) at mount: the initial state of the cell
UseStateMount(initial) == initial

\* the host's reducer for one queued update: an updater function is applied
\* to the state reached so far, a plain value replaces it
BasicStateReducer(state, action) ==
  IF TypeOf(action) = "function" THEN ApplyUpdater(action, state) ELSE action

\* a queue whose last update is computed from the rendered state
ProcessQueueStale(state, q) ==
  IF q = <<>> THEN state ELSE BasicStateReducer(state, q[Len(q)])

RECURSIVE ProcessQueue(_, _)
\* useState at a re-render: apply the queued updates in the order of the calls
ProcessQueue(state, q) ==
  IF q = <<>> THEN state
  ELSE ProcessQueue(BasicStateReducer(state, Head(q)), Tail(q))

\* a cell that takes the argument of useState again when nothing is queued
UseStateReinitialised(state, q, initial) ==
  IF q = <<>> THEN initial ELSE ProcessQueue(state, q)

\* useState(initial) at a re-render: the argument is ignored, the cell is the
\* previous state with the queued updates applied
UseStateUpdate(state, q, initial) == ProcessQueue(state, q)

\* useCallback(fn, deps): keep the previous closure while deps are unchanged
UseCallback(old, new) == IF old = new THEN old ELSE new

\* the closures of reset, commit and validate for one render
ResetClosure(sp) == [savePoint |-> sp]
CommitClosure(v) == [value |-> v]
ValidateClosure(f, h, v) == [validator |-> f, staticHint |-> h, value |-> v]

\* validate memoized without value among its dependencies
CallbacksStaleValidate(old, v, sp, h, f) ==
  [reset    |-> UseCallback(old.reset, ResetClosure(sp)),
   commit   |-> UseCallback(old.commit, CommitClosure(v)),
   validate |-> IF old.validate.validator = f /\ old.validate.staticHint = h
                THEN old.validate
                ELSE ValidateClosure(f, h, v)]

\* a host that never memoizes: every render returns new functions
DepsChangedAlways(prevDeps, nextDeps) == TRUE

\* useCallback(fn, deps) returns a new function, instead of the previous one,
\* when a dependency differs from the one of the previous render
DepsChanged(prevDeps, nextDeps) == prevDeps # nextDeps

\* the callbacks whose identity differs from the previous render's; setValue
\* is the dispatcher returned by useState, which the host never replaces
Recreated(old, v, sp, h, f) ==
  {n \in {"reset"} : DepsChanged(old.reset, ResetClosure(sp))}
    \cup {n \in {"commit"} : DepsChanged(old.commit, CommitClosure(v))}
    \cup {n \in {"validate"} : DepsChanged(old.validate, ValidateClosure(f, h, v))}

\* reset memoized with an empty dependency list
CallbacksStaleReset(old, v, sp, h, f) ==
  [reset    |-> old.reset,
   commit   |-> UseCallback(old.commit, CommitClosure(v)),
   validate |-> UseCallback(old.validate, ValidateClosure(f, h, v))]

\* the three useCallback calls of one render
Callbacks(old, v, sp, h, f) ==
  [reset    |-> UseCallback(old.reset, ResetClosure(sp)),
   commit   |-> UseCallback(old.commit, CommitClosure(v)),
   validate |-> UseCallback(old.validate, ValidateClosure(f, h, v))]

----------------------------------------------------------------------------
\* The log of one pass (history, read by the properties only)

Entry(op, arg, read, hint, res, ret) ==
  [op |-> op, arg |-> arg, read |-> read, hint |-> hint, res |-> res, ret |-> ret]

\* lastCommit: the argument of the last commit call and, for a call without
\* argument, the value rendered when it was called; NoCommit before any call
NoCommit == [state |-> NA, read |-> NA]

Rendered == [value |-> value, error |-> error, savePoint |-> savePoint]

\* a callback can be invoked: the pass has room for it
CanCall == phase # "pending" \/ Len(calls) < MaxPending

\* record the call; the first call after a render starts a new pass.
\* recreated tells which callbacks the last render replaced, until a callback
\* is called
Log(e, invoked) ==
  /\ phase' = "pending"
  /\ recreated' = {}
  /\ calls' = IF phase = "pending" THEN Append(calls, e) ELSE <<e>>
  /\ pre' = IF phase = "pending" THEN pre ELSE Rendered
  /\ validatorLog' = IF phase = "pending" THEN validatorLog \o invoked ELSE invoked

----------------------------------------------------------------------------
\* Construction

\* the first render of the hook with the arguments chosen by Init
Mounted ==
  /\ value = UseStateMount(initialValue)
  /\ error = UseStateMount(NULL)
  /\ savePoint = UseStateMount(initialValue)
  /\ cb = [reset    |-> ResetClosure(savePoint),
           commit   |-> CommitClosure(value),
           validate |-> ValidateClosure(validator, staticHint, value)]
  /\ qValue = <<>>
  /\ qError = <<>>
  /\ qSavePoint = <<>>
  /\ phase = "mounted"
  /\ calls = <<>>
  /\ pre = Rendered
  /\ validatorLog = <<>>
  /\ lastCommit = NoCommit
  /\ recreated = {}

Init ==
  /\ initialValue \in Values
  /\ staticHint \in Hints
  /\ validator \in Validators
  /\ Mounted

----------------------------------------------------------------------------
\* The callbacks

\* a setValue that also clears the error
SetValueClearsError(update) ==
  /\ CanCall
  /\ qValue' = Append(qValue, update)
  /\ qError' = Append(qError, NULL)
  /\ Log(Entry("setValue", update, NA, NA, NA, NA), <<>>)
  /\ UNCHANGED <<value, error, savePoint, staticHint, validator, cb,
                 qSavePoint, initialValue, lastCommit>>

\* a setValue that also moves the save point
SetValueMovesSavePoint(update) ==
  /\ CanCall
  /\ qValue' = Append(qValue, update)
  /\ qSavePoint' = Append(qSavePoint, update)
  /\ Log(Entry("setValue", update, NA, NA, NA, NA), <<>>)
  /\ UNCHANGED <<value, error, savePoint, staticHint, validator, cb,
                 qError, initialValue, lastCommit>>

\* a setValue that validates the rendered value on every change
SetValueValidates(update) ==
  /\ CanCall
  /\ qValue' = Append(qValue, update)
  /\ Log(Entry("setValue", update, NA, NA, NA, NA), <<cb.validate.value>>)
  /\ UNCHANGED <<value, error, savePoint, staticHint, validator, cb,
                 qError, qSavePoint, initialValue, lastCommit>>

\* setValue(update): the dispatcher of the value cell
SetValue(update) ==
  /\ CanCall
  /\ qValue' = Append(qValue, update)
  /\ Log(Entry("setValue", update, NA, NA, NA, NA), <<>>)
  /\ UNCHANGED <<value, error, savePoint, staticHint, validator, cb,
                 qError, qSavePoint, initialValue, lastCommit>>

\* a reset to the initial value, as the variant without commit does
ResetToInitialValue ==
  /\ CanCall
  /\ qValue' = Append(qValue, initialValue)
  /\ qError' = Append(qError, NULL)
  /\ Log(Entry("reset", NA, initialValue, NA, NA, NA), <<>>)
  /\ UNCHANGED <<value, error, savePoint, staticHint, validator, cb,
                 qSavePoint, initialValue, lastCommit>>

\* a reset that keeps the value it replaces as the new save point
ResetSwaps ==
  /\ CanCall
  /\ qValue' = Append(qValue, cb.reset.savePoint)
  /\ qError' = Append(qError, NULL)
  /\ qSavePoint' = Append(qSavePoint, cb.commit.value)
  /\ Log(Entry("reset", NA, cb.reset.savePoint, NA, NA, NA), <<>>)
  /\ UNCHANGED <<value, error, savePoint, staticHint, validator, cb,
                 initialValue, lastCommit>>

\* a reset that restores the value and leaves the error
ResetKeepsError ==
  /\ CanCall
  /\ qValue' = Append(qValue, cb.reset.savePoint)
  /\ Log(Entry("reset", NA, cb.reset.savePoint, NA, NA, NA), <<>>)
  /\ UNCHANGED <<value, error, savePoint, staticHint, validator, cb,
                 qError, qSavePoint, initialValue, lastCommit>>

\* reset()
Reset ==
  /\ CanCall
  /\ qValue' = Append(qValue, cb.reset.savePoint)
  /\ qError' = Append(qError, NULL)
  /\ Log(Entry("reset", NA, cb.reset.savePoint, NA, NA, NA), <<>>)
  /\ UNCHANGED <<value, error, savePoint, staticHint, validator, cb,
                 qSavePoint, initialValue, lastCommit>>

\* a commit that stores its argument without falling back to the value
CommitStoresArgument(state) ==
  /\ CanCall
  /\ qSavePoint' = Append(qSavePoint, state)
  /\ lastCommit' = [state |-> state,
                     read |-> IF state = UNDEFINED THEN cb.commit.value ELSE NA]
  /\ Log(Entry("commit", state, cb.commit.value, NA, NA, NA), <<>>)
  /\ UNCHANGED <<value, error, savePoint, staticHint, validator, cb,
                 qValue, qError, initialValue>>

\* a commit that also clears the error
CommitClearsError(state) ==
  /\ CanCall
  /\ qSavePoint' = Append(qSavePoint, NullishCoalesce(state, cb.commit.value))
  /\ qError' = Append(qError, NULL)
  /\ lastCommit' = [state |-> state,
                     read |-> IF state = UNDEFINED THEN cb.commit.value ELSE NA]
  /\ Log(Entry("commit", state, cb.commit.value, NA, NA, NA), <<>>)
  /\ UNCHANGED <<value, error, savePoint, staticHint, validator, cb,
                 qValue, initialValue>>

\* a commit that falls back to the value as it will be once the queue is applied
CommitReadsPending(state) ==
  /\ CanCall
  /\ qSavePoint' = Append(qSavePoint,
                          NullishCoalesce(state, ProcessQueue(value, qValue)))
  /\ lastCommit' = [state |-> state,
                     read |-> IF state = UNDEFINED THEN cb.commit.value ELSE NA]
  /\ Log(Entry("commit", state, cb.commit.value, NA, NA, NA), <<>>)
  /\ UNCHANGED <<value, error, savePoint, staticHint, validator, cb,
                 qValue, qError, initialValue>>

\* commit(state?)
Commit(state) ==
  /\ CanCall
  /\ qSavePoint' = Append(qSavePoint, NullishCoalesce(state, cb.commit.value))
  /\ lastCommit' = [state |-> state,
                     read |-> IF state = UNDEFINED THEN cb.commit.value ELSE NA]
  /\ Log(Entry("commit", state, cb.commit.value, NA, NA, NA), <<>>)
  /\ UNCHANGED <<value, error, savePoint, staticHint, validator, cb,
                 qValue, qError, initialValue>>

\* a validate that only tests the truthiness of the result, as the variant
\* without dynamic hints does
ValidateErrorTruthy(result, hint) ==
  IF result \in {JSFalse, NULL, UNDEFINED} THEN hint ELSE NULL

\* a validate that never clears the error
ValidateErrorNeverCleared(result, hint) ==
  IF TypeOf(result) # "boolean" THEN result ELSE hint

\* a validate that stores whatever the validator returned unless it is true
ValidateErrorStoresResult(result, hint) ==
  IF result = JSTrue THEN NULL ELSE result

\* what validate() queues for the error cell and returns, given the result
ValidateError(result, hint) ==
  IF TypeOf(result) # "boolean" THEN result
  ELSE IF result = JSFalse THEN hint
  ELSE NULL

\* a validate that returns the truthiness of the result
ValidateReturnTruthy(result) ==
  IF result \in {JSFalse, NULL, UNDEFINED} THEN JSFalse ELSE JSTrue

\* what validate() returns, given the result
ValidateReturn(result) ==
  IF TypeOf(result) # "boolean" THEN JSFalse
  ELSE IF result = JSFalse THEN JSFalse
  ELSE JSTrue

\* a validate that reads the value as it will be once the queue is applied
ValidatedValuePending == ProcessQueue(value, qValue)

\* the value validate() passes to the validator: the one its closure captured
ValidatedValue == cb.validate.value

\* a validate that catches what the validator throws and reports the hint
ValidateCatchesThrow ==
  /\ CanCall
  /\ LET c == cb.validate
         v == ValidatedValue
         result == CallValidator(c.validator, v)
     IN IF result = THROW
        THEN /\ qError' = Append(qError, c.staticHint)
             /\ Log(Entry("validate", c.validator, v, c.staticHint, THROW, JSFalse),
                    <<v>>)
        ELSE /\ qError' = Append(qError, ValidateError(result, c.staticHint))
             /\ Log(Entry("validate", c.validator, v, c.staticHint, result,
                          ValidateReturn(result)),
                    <<v>>)
  /\ UNCHANGED <<value, error, savePoint, staticHint, validator, cb,
                 qValue, qSavePoint, initialValue, lastCommit>>

\* validate()
Validate ==
  /\ CanCall
  /\ LET c == cb.validate
         v == ValidatedValue
         result == CallValidator(c.validator, v)
     IN IF result = THROW
        THEN /\ qError' = qError
             /\ Log(Entry("validate", c.validator, v, c.staticHint, THROW, THROW),
                    <<v>>)
        ELSE /\ qError' = Append(qError, ValidateError(result, c.staticHint))
             /\ Log(Entry("validate", c.validator, v, c.staticHint, result,
                          ValidateReturn(result)),
                    <<v>>)
  /\ UNCHANGED <<value, error, savePoint, staticHint, validator, cb,
                 qValue, qSavePoint, initialValue, lastCommit>>

----------------------------------------------------------------------------
\* Rendering

\* the hook function runs again with arguments (iv, h, f): each useState applies
\* its queue (iv is ignored after mount), each useCallback compares its deps
Render(iv, h, f) ==
  LET v  == UseStateUpdate(value, qValue, iv)
      e  == UseStateUpdate(error, qError, NULL)
      sp == UseStateUpdate(savePoint, qSavePoint, iv)
  IN /\ value' = v
     /\ error' = e
     /\ savePoint' = sp
     /\ staticHint' = h
     /\ validator' = f
     /\ cb' = Callbacks(cb, v, sp, h, f)
     /\ recreated' = Recreated(cb, v, sp, h, f)
     /\ qValue' = <<>>
     /\ qError' = <<>>
     /\ qSavePoint' = <<>>
     /\ phase' = "rendered"
     /\ UNCHANGED <<initialValue, lastCommit>>

\* a host that renders only when the value cell has a queued update
FlushWhenValueQueued ==
  /\ phase = "pending"
  /\ qValue # <<>>
  /\ Render(initialValue, staticHint, validator)
  /\ UNCHANGED <<calls, pre, validatorLog>>

\* the host applies the pending updates and renders with the same arguments;
\* the log keeps the calls of the pass that was applied
Flush ==
  /\ phase = "pending"
  /\ Render(initialValue, staticHint, validator)
  /\ UNCHANGED <<calls, pre, validatorLog>>

\* the owner renders again with other arguments, between two passes (a render
\* in the middle of a pass is Flush followed by Rerender)
Rerender(iv, h, f) ==
  /\ phase # "pending"
  /\ <<h, f>> # <<staticHint, validator>> \/ iv # initialValue
  /\ Render(iv, h, f)
  /\ calls' = <<>>
  /\ validatorLog' = <<>>
  /\ pre' = Rendered

Next ==
  \/ \E u \in Values \cup Updaters : SetValue(u)
  \/ Reset
  \/ \E s \in Values \cup {UNDEFINED} : Commit(s)
  \/ Validate
  \/ Flush
  \/ \E iv \in Values, h \in Hints, f \in Validators : Rerender(iv, h, f)

Spec == Init /\ [][Next]_vars

\* The hook under an owner that keeps its arguments: the only renders are the
\* host's.  The host always gets to render a pass that has queued updates:
\* the callbacks only queue and return, nothing blocks the render
NextFair ==
  \/ \E u \in Values \cup Updaters : SetValue(u)
  \/ Reset
  \/ \E s \in Values \cup {UNDEFINED} : Commit(s)
  \/ Validate
  \/ Flush

SpecFair == Init /\ [][NextFair]_vars /\ WF_vars(Flush)

\* The same hook used with E = boolean: the static hint true makes error a
\* flag (true when invalid, null otherwise).  The owner re-renders with other
\* hints and validators; the initial value it passes is the one of the mount.
FlagHints == Hints \cup {JSTrue}

InitFlag ==
  /\ initialValue \in Values
  /\ staticHint \in FlagHints
  /\ validator \in Validators
  /\ Mounted

NextFlag ==
  \/ \E u \in Values \cup Updaters : SetValue(u)
  \/ Reset
  \/ \E s \in Values \cup {UNDEFINED} : Commit(s)
  \/ Validate
  \/ Flush
  \/ \E h \in FlagHints, f \in Validators : Rerender(initialValue, h, f)

SpecFlag == InitFlag /\ [][NextFlag]_vars

----------------------------------------------------------------------------
\* The variant without commit (src/src/index.js), on the cells value and error

\* the validators (value: V) => boolean
BooleanValidators == {"isA"}

\* !x
Not(x) == IF x \in {JSFalse, NULL, UNDEFINED, StrEmpty} THEN JSTrue ELSE JSFalse

\* what its validate() queues for the error cell, given the result
OldValidateError(result, hint) == IF Not(result) = JSTrue THEN hint ELSE NULL

\* what its validate() returns, given the result
OldValidateReturn(result) == IF Not(result) = JSTrue THEN JSFalse ELSE JSTrue

\* its setValue(update)
OldSetValue(update) ==
  /\ qValue' = Append(qValue, update)
  /\ UNCHANGED <<value, error, qError>>

\* its reset(): the closure holds the initialValue argument
OldReset ==
  /\ qValue' = Append(qValue, initialValue)
  /\ qError' = Append(qError, NULL)
  /\ UNCHANGED <<value, error>>

\* its validate(), returning ret (THROW: the validator threw); the closure
\* holds the validator, the hint and the value of the render
OldValidate(ret) ==
  /\ LET result == CallValidator(validator, value)
     IN IF result = THROW
        THEN ret = THROW /\ qError' = qError
        ELSE /\ ret = OldValidateReturn(result)
             /\ qError' = Append(qError, OldValidateError(result, staticHint))
  /\ UNCHANGED <<value, error, qValue>>

\* its render: both cells apply their queues
OldRender ==
  /\ value' = UseStateUpdate(value, qValue, initialValue)
  /\ error' = UseStateUpdate(error, qError, NULL)
  /\ qValue' = <<>>
  /\ qError' = <<>>

\* The final variant with fixed arguments and a validator that returns only
\* booleans, driven by setValue, validate and reset: commit is never called
InitBoolean ==
  /\ initialValue \in Values
  /\ staticHint \in Hints
  /\ validator \in BooleanValidators
  /\ Mounted

NextWithoutCommit ==
  \/ \E u \in Values \cup Updaters : SetValue(u)
  \/ Reset
  \/ Validate
  \/ Flush

SpecWithoutCommit == InitBoolean /\ [][NextWithoutCommit]_vars

----------------------------------------------------------------------------
\* Properties.  After Flush the log (calls, pre, validatorLog) describes the
\* pass that has just been applied: pre is the state rendered before it.

TypeOK ==
  /\ value \in Values \cup {UNDEFINED}
  /\ savePoint \in Values \cup {UNDEFINED}
  /\ phase \in {"mounted", "pending", "rendered"}
  /\ Len(calls) <= MaxPending

\* the pass recorded in the log has been applied
Applied == phase = "rendered" /\ calls # <<>>

LastCall == calls[Len(calls)]

\* the pass was this one call
OnlyCall(op) == Len(calls) = 1 /\ calls[1].op = op

NoCallOf(op) == \A i \in 1..Len(calls) : calls[i].op # op

\* ---- C1 ----
\* C1: a validate() whose validator returned result r for the rendered value,
\* once applied, leaves error = null and returned true if r is true, leaves
\* error = staticHint and returned false if r is false, and leaves error = r
\* and returned false for any other r, whatever the error was before.
C1_ValidateMapsResult ==
  (Applied /\ LastCall.op = "validate" /\ LastCall.res # THROW) =>
    LET e == LastCall
        r == e.res
    IN /\ e.read = pre.value
       /\ r = CallValidator(e.arg, pre.value)
       /\ (r = JSTrue => error = NULL /\ e.ret = JSTrue)
       /\ (r = JSFalse => error = e.hint /\ e.ret = JSFalse)
       /\ (r \notin {JSTrue, JSFalse} => error = r /\ e.ret = JSFalse)

\* a dynamic hint has replaced a static hint
C1_Witness ==
  /\ Applied /\ OnlyCall("validate")
  /\ pre.error = StrHint
  /\ calls[1].res = StrDyn
  /\ error = StrDyn

\* ---- C2 ----
\* C2: a reset(), once applied, has set value to the save point and error to
\* null, has not invoked the validator and has left the save point alone.
C2_ResetRestoresSavePoint ==
  /\ (Applied /\ LastCall.op = "reset") =>
        value = pre.savePoint /\ error = NULL
  /\ (Applied /\ OnlyCall("reset")) =>
        savePoint = pre.savePoint /\ validatorLog = <<>>

\* reset from an invalid state whose value and save point both moved
C2_Witness ==
  /\ Applied /\ OnlyCall("reset")
  /\ pre.error # NULL
  /\ pre.value # pre.savePoint
  /\ pre.savePoint # initialValue
  /\ value = pre.savePoint

\* ---- C3 ----
\* C3: right after construction value = initialValue, error = null,
\* savePoint = initialValue, and the validator has not been invoked.
C3_InitialState ==
  phase = "mounted" =>
    /\ value = initialValue
    /\ error = NULL
    /\ savePoint = initialValue
    /\ validatorLog = <<>>
    /\ calls = <<>>

C3_Witness ==
  phase = "mounted" /\ initialValue = StrEmpty /\ value = StrEmpty /\ staticHint = NULL

\* ---- C4 ----
\* C4: a setValue(v) with a plain value v, once applied, has made value = v,
\* has not invoked the validator, and has left error and savePoint as they were.
C4_SetValuePlain ==
  (Applied /\ OnlyCall("setValue") /\ calls[1].arg \in Values) =>
    /\ value = calls[1].arg
    /\ error = pre.error
    /\ savePoint = pre.savePoint
    /\ validatorLog = <<>>

\* a new value set in an invalid state
C4_Witness ==
  /\ Applied /\ OnlyCall("setValue") /\ calls[1].arg \in Values
  /\ pre.error # NULL
  /\ value # pre.value
  /\ error = pre.error

\* ---- C5 ----
\* C5 (as stated): if the last commit was a commit() without argument, called
\* when the rendered value was v, a later reset() restores value to v.
C5_ResetAfterCommit_Original ==
  (Applied /\ LastCall.op = "reset" /\ lastCommit.state = UNDEFINED) =>
    value = lastCommit.read

\* C5 (amended): if the last commit was a commit() without argument, called
\* when the rendered value was v, a reset() called in a later pass than that
\* commit (the commit has been applied) restores value to v.
C5_ResetAfterAppliedCommit ==
  (Applied /\ LastCall.op = "reset" /\ lastCommit.state = UNDEFINED
     /\ NoCallOf("commit")) =>
    value = lastCommit.read

\* reset brings back a committed value that is neither the initial value nor
\* the value rendered before the reset
C5_Witness ==
  /\ Applied /\ OnlyCall("reset")
  /\ lastCommit.state = UNDEFINED
  /\ lastCommit.read # initialValue
  /\ pre.value # lastCommit.read
  /\ value = lastCommit.read

\* ---- C6 ----
\* C6: a commit(s) with a supplied state s of V, once applied, has set
\* savePoint to s, for every s (the empty string and null included) and
\* whatever the value is; a reset() called after that yields value = s.
C6_CommitStateSetsSavePoint ==
  /\ (Applied /\ OnlyCall("commit") /\ calls[1].arg \in Values) =>
        savePoint = calls[1].arg
  /\ (Applied /\ LastCall.op = "reset" /\ lastCommit.state \in Values
        /\ NoCallOf("commit")) =>
        value = lastCommit.state

\* ---- C7 ----
\* C7: while commit has never been called savePoint = initialValue (the
\* constructor's), and a reset(), once applied, yields value = initialValue
\* and error = null.
C7_ResetWithoutCommit ==
  lastCommit = NoCommit =>
    /\ savePoint = initialValue
    /\ (Applied /\ LastCall.op = "reset") =>
          value = initialValue /\ error = NULL

\* reset from a changed, invalid state
C7_Witness ==
  /\ lastCommit = NoCommit
  /\ Applied /\ OnlyCall("reset")
  /\ pre.value # initialValue
  /\ pre.error # NULL
  /\ value = initialValue

\* ---- C8 ----
\* C8: a validate() called when the last pass was a setValue(v) that has been
\* applied passes exactly v to the validator; what it queues for error and
\* what it returns are the outcome for v.
C8_ValidateAfterFlush ==
  [][ ( /\ Applied /\ OnlyCall("setValue") /\ calls[1].arg \in Values
        /\ phase' = "pending" /\ calls'[1].op = "validate" )
      => LET v == calls[1].arg
             e == calls'[1]
             r == CallValidator(validator, v)
         IN /\ validatorLog' = <<v>>
            /\ e.read = v
            /\ e.res = r
            /\ r # THROW => /\ qError' = <<ValidateError(r, staticHint)>>
                            /\ e.ret = ValidateReturn(r) ]_vars

\* validate has accepted a value that is not the initial one and was never
\* a save point: it came from an applied setValue
C8_Witness ==
  /\ phase = "pending" /\ OnlyCall("validate")
  /\ lastCommit = NoCommit
  /\ calls[1].read # initialValue
  /\ calls[1].ret = JSTrue
  /\ validatorLog = <<value>>

\* ---- C9 ----
\* C9: when validate() follows a setValue(v) in the same pass, the validator
\* is evaluated on the value rendered before the pass; once the pass is
\* applied value = v while error and the return value are the outcome for the
\* previous value.
C9_ValidateInSamePass ==
  ( /\ Applied /\ Len(calls) = 2
    /\ calls[1].op = "setValue" /\ calls[1].arg \in Values
    /\ calls[2].op = "validate" /\ calls[2].res # THROW )
  => LET e == calls[2]
         r == CallValidator(e.arg, pre.value)
     IN /\ validatorLog = <<pre.value>>
        /\ e.read = pre.value
        /\ e.res = r
        /\ value = calls[1].arg
        /\ error = ValidateError(r, e.hint)
        /\ e.ret = ValidateReturn(r)

\* the value is now valid but the error describes the previous one
C9_Witness ==
  /\ Applied /\ Len(calls) = 2
  /\ calls[1].op = "setValue" /\ calls[1].arg = StrA
  /\ calls[2].op = "validate" /\ calls[2].ret = JSFalse
  /\ pre.value = StrEmpty
  /\ value = StrA
  /\ error = StrHint

\* ---- C10 ----
RECURSIVE ValueAfter(_, _)
\* the value after the calls cs in invocation order, from value v
ValueAfter(v, cs) ==
  IF cs = <<>> THEN v
  ELSE LET c == cs[Len(cs)]
           before == ValueAfter(v, SubSeq(cs, 1, Len(cs) - 1))
       IN IF c.op = "setValue"
          THEN (IF c.arg \in Updaters THEN ApplyUpdater(c.arg, before) ELSE c.arg)
          ELSE IF c.op = "reset" THEN pre.savePoint
          ELSE before

\* C10: a setValue(f) with an updater f, once applied, has set value to f of
\* the value reached by the earlier setValue and reset calls of the pass: k
\* updaters in one pass compose.
C10_UpdatersCompose ==
  (Applied /\ LastCall.op = "setValue" /\ LastCall.arg \in Updaters) =>
    value = ApplyUpdater(LastCall.arg,
                         ValueAfter(pre.value, SubSeq(calls, 1, Len(calls) - 1)))

\* two updaters in one pass: the second was applied to the first one's result
C10_Witness ==
  /\ Applied /\ Len(calls) = 2
  /\ calls[1].op = "setValue" /\ calls[1].arg \in Updaters
  /\ calls[2].op = "setValue" /\ calls[2].arg \in Updaters
  /\ value = ApplyUpdater(calls[2].arg, ApplyUpdater(calls[1].arg, pre.value))
  /\ value # ApplyUpdater(calls[2].arg, pre.value)

\* ---- C11 ----
\* the calls of the pass that write error
SomeCallOf(op) == \E i \in 1..Len(calls) : calls[i].op = op

\* C11: error goes from absent to present only by a pass that holds a
\* validate() call; a pass of setValue and commit calls leaves error as it
\* was, a pass without validate leaves it as it was or clears it (reset), and
\* a render without pending calls never changes it.
C11_ErrorSetOnlyByValidate ==
  /\ [](Applied /\ NoCallOf("validate") /\ NoCallOf("reset") => error = pre.error)
  /\ [](Applied /\ NoCallOf("validate") => error \in {pre.error, NULL})
  /\ [][error' # error =>
          /\ phase = "pending" /\ phase' = "rendered"
          /\ SomeCallOf("validate") \/ SomeCallOf("reset")]_vars
  /\ [][error = NULL /\ error' # NULL =>
          phase = "pending" /\ SomeCallOf("validate")]_vars

\* a pass of commit and validate has set the error; commit alone had not
C11_Witness ==
  /\ Applied /\ Len(calls) = 2
  /\ calls[1].op = "commit" /\ calls[2].op = "validate"
  /\ pre.error = NULL
  /\ error = StrHint

\* ---- C12 ----
\* C12: savePoint changes only by a pass that holds a commit, value only by a
\* pass that holds a setValue or a reset; commit leaves value and error,
\* validate leaves value and savePoint, setValue and reset leave savePoint;
\* a render without pending calls (such as a re-invocation with another
\* initialValue) changes neither value nor savePoint.
C12_Frames ==
  /\ [](Applied /\ NoCallOf("commit") => savePoint = pre.savePoint)
  /\ [](Applied /\ NoCallOf("setValue") /\ NoCallOf("reset") => value = pre.value)
  /\ [](Applied /\ OnlyCall("commit") => value = pre.value /\ error = pre.error)
  /\ [][phase # "pending" => value' = value /\ savePoint' = savePoint]_vars

\* a commit moved the save point and nothing else, in an invalid state
C12_Witness ==
  /\ Applied /\ OnlyCall("commit")
  /\ calls[1].arg = StrEmpty
  /\ pre.savePoint # StrEmpty
  /\ savePoint = StrEmpty
  /\ value = pre.value /\ value # initialValue
  /\ pre.error # NULL /\ error = pre.error

\* ---- C13 ----
\* the pass holds one validate() that returned, and no other call writing error
OneValidate ==
  /\ NoCallOf("reset")
  /\ \E i \in 1..Len(calls) :
        /\ calls[i].op = "validate" /\ calls[i].res # THROW
        /\ \A j \in 1..Len(calls) : calls[j].op = "validate" => j = i

TheValidate == calls[CHOOSE i \in 1..Len(calls) : calls[i].op = "validate"]

\* C13 (as stated): once a validate() has been applied with no other call
\* writing error in its pass, error is null if and only if it returned true,
\* for every validator result and every static hint.
C13_ErrorNullIffValid_Original ==
  (Applied /\ OneValidate) => (error = NULL <=> TheValidate.ret = JSTrue)

\* C13 (amended): once such a validate() has been applied, error is null if
\* it returned true; and if error is null it returned true, provided the
\* value it wrote (the static hint for result false, else the result) is not
\* null.
C13_ErrorNullIffValid ==
  (Applied /\ OneValidate) =>
    LET e == TheValidate
    IN /\ e.ret = JSTrue => error = NULL
       /\ ( /\ e.res # NULL
            /\ e.res = JSFalse => e.hint # NULL )
          => (error = NULL <=> e.ret = JSTrue)

\* a failed validation with a present hint, next to a commit, in a valid state
C13_Witness ==
  /\ Applied /\ OneValidate /\ Len(calls) = 2
  /\ TheValidate.res = StrDyn
  /\ TheValidate.ret = JSFalse
  /\ pre.error = NULL
  /\ error = StrDyn

\* ---- C14 ----
\* C14: a validate() whose validator throws propagates the exception and
\* queues no update: value, error and savePoint are after the call, and
\* after the next render, what they were before.
C14_ThrowingValidator ==
  (OnlyCall("validate") /\ calls[1].res = THROW) =>
    /\ calls[1].ret = THROW
    /\ qValue = <<>> /\ qError = <<>> /\ qSavePoint = <<>>
    /\ Rendered = pre

\* the validator threw in an invalid state and the error is still there
C14_Witness ==
  /\ Applied /\ OnlyCall("validate")
  /\ calls[1].res = THROW
  /\ validatorLog = <<NULL>>
  /\ pre.error = StrHint
  /\ error = StrHint

\* ---- C15 ----
\* the positions of the validate() calls of the pass
ValidateCalls == {i \in 1..Len(calls) : calls[i].op = "validate"}

\* C15: the validator has been invoked once per validate() call of the pass,
\* on the value that call read and in the order of the calls; construction
\* and renders add no invocation, nor do setValue, reset and commit.
C15_ValidatorInvokedOncePerValidate ==
  /\ [](Len(validatorLog) = Cardinality(ValidateCalls))
  /\ [](\A i \in ValidateCalls :
          validatorLog[Cardinality({j \in ValidateCalls : j <= i})] = calls[i].read)
  /\ [](phase = "mounted" => validatorLog = <<>>)
  /\ [][phase' = "rendered" => Len(validatorLog') <= Len(validatorLog)]_vars

\* one invocation for a pass of a validate and a reset
C15_Witness ==
  /\ Applied /\ Len(calls) = 2
  /\ calls[1].op = "validate" /\ calls[2].op = "reset"
  /\ validatorLog = <<pre.value>>

\* ---- C16 ----
\* C16: two reset() calls in one pass, once applied, leave what one leaves
\* (value = the save point, error = null, the save point unchanged); and in
\* the state one applied reset() leaves, a second reset() queues the value and
\* error that are already there, so applying it changes nothing.
C16_ResetIdempotent ==
  /\ []( (Applied /\ Len(calls) = 2 /\ NoCallOf("setValue") /\ NoCallOf("validate")
            /\ NoCallOf("commit")) =>
          /\ value = pre.savePoint
          /\ error = NULL
          /\ savePoint = pre.savePoint )
  /\ []( (Applied /\ OnlyCall("reset") /\ pre.value = pre.savePoint
            /\ pre.error = NULL) => Rendered = pre )
  /\ [][ (Applied /\ OnlyCall("reset") /\ phase' = "pending"
            /\ calls'[1].op = "reset") =>
          /\ qValue' = <<value>>
          /\ qError' = <<error>>
          /\ qSavePoint' = <<>> ]_vars

\* two resets in one pass from a changed, invalid state
C16_Witness ==
  /\ Applied /\ Len(calls) = 2
  /\ calls[1].op = "reset" /\ calls[2].op = "reset"
  /\ pre.value # pre.savePoint
  /\ pre.error # NULL
  /\ value = pre.savePoint /\ error = NULL

\* ---- C18 ----
\* C18: a commit() without argument that follows a setValue in the same pass
\* sets savePoint to the value rendered before the pass, not to the value
\* being set; a reset() called after the pass restores that earlier value.
C18_CommitInSamePass ==
  /\ []( ( /\ Applied /\ Len(calls) = 2
           /\ calls[1].op = "setValue"
           /\ calls[2].op = "commit" /\ calls[2].arg = UNDEFINED )
         => /\ calls[2].read = pre.value
            /\ savePoint = pre.value
            /\ value = BasicStateReducer(pre.value, calls[1].arg) )
  /\ [][ ( /\ Applied /\ Len(calls) = 2
           /\ calls[1].op = "setValue"
           /\ calls[2].op = "commit" /\ calls[2].arg = UNDEFINED
           /\ phase' = "pending" /\ calls'[1].op = "reset" )
         => qValue' = <<pre.value>> ]_vars

\* the save point is the old value, the value is the new one
C18_Witness ==
  /\ Applied /\ Len(calls) = 2
  /\ calls[1].op = "setValue" /\ calls[1].arg = StrA
  /\ calls[2].op = "commit" /\ calls[2].arg = UNDEFINED
  /\ pre.value = StrEmpty /\ pre.savePoint = NULL
  /\ savePoint = StrEmpty
  /\ value = StrA

\* ---- C19 ----
\* C19: a reset() that follows a commit(s) in the same pass sets value to the
\* save point rendered before the pass, not to s; once the pass is applied
\* savePoint = s while value is the older save point.
C19_ResetBeforeCommitApplied ==
  ( /\ Applied /\ Len(calls) = 2
    /\ calls[1].op = "commit" /\ calls[1].arg \in Values
    /\ calls[2].op = "reset" )
  => /\ calls[2].read = pre.savePoint
     /\ value = pre.savePoint
     /\ savePoint = calls[1].arg

\* ---- C20 ----
\* the calls of the pass that write error: reset, and validate unless it threw
ErrorWriters ==
  {i \in 1..Len(calls) :
     \/ calls[i].op = "reset"
     \/ calls[i].op = "validate" /\ calls[i].res # THROW}

LastErrorWriter == calls[CHOOSE i \in ErrorWriters : \A j \in ErrorWriters : j <= i]

\* C20: in a rendered state error is what the last reset or (returning)
\* validate call left: null after construction; null if the last such call
\* of the applied pass is a reset; the outcome of the validator on the value
\* rendered before the pass if it is a validate; what it was before the pass
\* if the pass holds no such call.  setValue and commit calls around it, and
\* renders without pending calls, do not change it.
C20_ErrorFromLastValidateOrReset ==
  /\ [](phase = "mounted" => error = NULL)
  /\ []( (Applied /\ ErrorWriters = {}) => error = pre.error )
  /\ []( (Applied /\ ErrorWriters # {}) =>
           IF LastErrorWriter.op = "reset"
           THEN error = NULL
           ELSE error = ValidateError(CallValidator(validator, pre.value), staticHint) )
  /\ [][phase # "pending" => error' = error]_vars

\* the error describes the value that was rendered when validate was called;
\* the value applied with it is a valid one
C20_Witness ==
  /\ Applied /\ Len(calls) = 2
  /\ calls[1].op = "validate" /\ calls[2].op = "setValue"
  /\ pre.error = NULL
  /\ error = StrHint
  /\ value = StrA
  /\ CallValidator(validator, value) = JSTrue

\* ---- C21 ----
\* the non-boolean values a validator can return
DynamicHints ==
  {CallValidator(f, v) : f \in Validators, v \in Values} \ {JSTrue, JSFalse, THROW}

\* C21 as stated: in every reachable state error is null, the staticHint or a
\* non-boolean value returned by the validator, and never a boolean.
C21_ErrorNeverBoolean_Original ==
  /\ error \in {NULL, staticHint} \cup DynamicHints
  /\ error \notin {JSTrue, JSFalse}

\* C21: error is null at mount, and whenever it changes it becomes null, the
\* static hint of the render whose validate wrote it, or the non-boolean value
\* the validator returned for the value rendered then; a boolean returned by
\* the validator is never stored, so error is a boolean only when the static
\* hint is that boolean.
C21_ErrorNeverValidatorBoolean ==
  /\ [](phase = "mounted" => error = NULL)
  /\ [][error' # error =>
          \/ error' \in {NULL, staticHint}
          \/ /\ error' = CallValidator(validator, value)
             /\ TypeOf(error') # "boolean"
             /\ error' # THROW]_vars
  /\ [](error # JSFalse)
  /\ [](error = JSTrue /\ pre.error # JSTrue =>
          \E i \in 1..Len(calls) :
            /\ calls[i].op = "validate"
            /\ calls[i].hint = JSTrue
            /\ calls[i].res = JSFalse)

\* the validator returned false under the static hint true: error is the flag
C21_Witness ==
  /\ Applied /\ OnlyCall("validate")
  /\ calls[1].res = JSFalse
  /\ calls[1].hint = JSTrue
  /\ error = JSTrue

\* ---- C22 ----
\* C22: the callbacks of the latest render read the state of that render:
\* validate holds the rendered value and the validator and staticHint passed
\* to the render, commit holds the rendered value, reset holds the rendered
\* savePoint; none of them holds a value older than the last flush.
C22_CallbacksReadRenderedState ==
  /\ cb.validate.value = value
  /\ cb.validate.validator = validator
  /\ cb.validate.staticHint = staticHint
  /\ cb.commit.value = value
  /\ cb.reset.savePoint = savePoint

\* a pass that changed both value and savePoint has been applied and the
\* callbacks hold the new ones
C22_Witness ==
  /\ Applied
  /\ value # pre.value
  /\ savePoint # pre.savePoint
  /\ value # savePoint
  /\ cb.validate.value = value
  /\ cb.commit.value = value
  /\ cb.reset.savePoint = savePoint

\* ---- C23 ----
\* C23: at every render a callback keeps its identity while its dependencies
\* are unchanged: reset is replaced only if savePoint changed, commit only if
\* value changed, validate only if validator, staticHint or value changed,
\* and setValue is never replaced.
C23_StableIdentity ==
  [][phase' = "rendered" =>
       /\ "reset" \in recreated' => savePoint' # savePoint
       /\ "commit" \in recreated' => value' # value
       /\ "validate" \in recreated' =>
            validator' # validator \/ staticHint' # staticHint \/ value' # value
       /\ "setValue" \notin recreated']_vars

\* a pass that changed value and kept savePoint has been applied: commit and
\* validate were replaced, reset was kept
C23_Witness ==
  /\ Applied
  /\ value # pre.value
  /\ savePoint = pre.savePoint
  /\ recreated = {"commit", "validate"}

\* ---- C24 ----
\* C24: with fixed arguments, a validator that returns only booleans and no
\* commit, every step of the final variant is the step the variant without
\* commit takes on the same call from the same value, error and queues: the
\* same updates are queued, validate returns the same boolean, and a render
\* yields the same value and error.
C24_RefinesVariantWithoutCommit ==
  [][IF phase' = "rendered"
     THEN OldRender
     ELSE LET e == calls'[Len(calls')]
          IN \/ e.op = "setValue" /\ OldSetValue(e.arg)
             \/ e.op = "reset" /\ OldReset
             \/ e.op = "validate" /\ OldValidate(e.ret)]_vars

\* a pass of reset() and a failing validate() has been applied: the value is
\* the initial value again and the error is the hint
C24_Witness ==
  /\ Applied
  /\ lastCommit = NoCommit
  /\ Len(calls) = 2
  /\ calls[1].op = "reset"
  /\ calls[2].op = "validate"
  /\ calls[2].ret = JSFalse
  /\ pre.value # initialValue
  /\ pre.error = NULL
  /\ value = initialValue
  /\ error = StrHint

\* ---- C25 ----
\* the calls of the pass that write value
ValueWriters == {i \in 1..Len(calls) : calls[i].op \in {"setValue", "reset"}}

\* the last call of the pass that writes value is a setValue(v) with a plain v
LastWriteIsSetValue ==
  /\ ValueWriters # {}
  /\ LET c == calls[CHOOSE i \in ValueWriters : \A j \in ValueWriters : j <= i]
     IN c.op = "setValue" /\ c.arg \in Values

LastWritten ==
  calls[CHOOSE i \in ValueWriters : \A j \in ValueWriters : j <= i].arg

\* C25: under fair flushing every pending pass is eventually applied, with
\* nothing left queued, and if its last setValue or reset call is a
\* setValue(v) then value = v; outside a pending pass no step changes value,
\* error or savePoint, so value stays v until the next call.
C25_QueuedUpdatesEventuallyApplied ==
  /\ (phase = "pending") ~>
       /\ phase = "rendered"
       /\ qValue = <<>> /\ qError = <<>> /\ qSavePoint = <<>>
       /\ LastWriteIsSetValue => value = LastWritten
  /\ [][phase # "pending" => UNCHANGED <<value, error, savePoint>>]_vars

\* a setValue('a') issued after a reset in the same pass has been applied
C25_Witness ==
  /\ Applied
  /\ Len(calls) = 2
  /\ calls[1].op = "reset"
  /\ LastWriteIsSetValue
  /\ LastWritten = StrA
  /\ pre.value # StrA
  /\ pre.savePoint # StrA
  /\ value = StrA

====
